---- MODULE Spec2Model ----
(***************************************************************************)
(* Model of charms.hpc_libs.v0.is_container: the function is_container()   *)
(* looks `systemd-detect-virt` up on the search path, raises               *)
(* DetectVirtNotFoundError when the lookup fails, and otherwise runs       *)
(* `systemd-detect-virt --container` and returns returncode == 0.          *)
(*                                                                         *)
(* The host (the files on the search path, each with the status it exits   *)
(* with, and whether the host refuses to execute them) is the environment: *)
(* it may change at any moment, also between the lookup and the execution  *)
(* of one call.                                                            *)
(***************************************************************************)
EXTENDS Integers, FiniteSets

\* ---------------------------------------------------------------- bounds
NumDirs == 2      \* directories on the search path
NumProgs == 3     \* distinct files that may be installed as systemd-detect-virt
MaxCalls == 2     \* calls of is_container() that pass the lookup

\* ------------------------------------------------------------------ host
Absent == 0       \* shutil.which(...) is None: no executable of that name
Dirs == 1..NumDirs
Programs == 1..NumProgs
Entries == {Absent} \cup Programs
\* The status program p ends with, as subprocess.run reports it in returncode:
\* program 1 exits 0 (a container), an even p exits with a positive status
\* (1, 2, ...), an odd p >= 3 is ended by a signal (-9 SIGKILL, -15 SIGTERM, ...).
ExitStatusOf(p) ==
    IF p = 1 THEN 0
    ELSE IF p % 2 = 0 THEN p \div 2
    ELSE 0 - (3 * p)
\* what the child may have written to the inherited stdout/stderr
Outputs == {"lxc", "none"}

VARIABLES
    path,        \* path[d]: the file named systemd-detect-virt in directory d, or Absent
    noexec,      \* TRUE: the host refuses execve of the file (EACCES)
    pc,          \* position of is_container(): "idle", "resolved", "waiting"
    resolved,    \* the file shutil.which found in the latest call, or Absent
    child,       \* the child process of the latest call
    outcome,     \* how the latest call ended: [kind, message]
    prev,        \* the call before it: [kind, code, wrote]
    hostSame,    \* the host is unchanged since the start of: "previous" (the
                 \* call in prev), "latest" (only the latest call), "neither"
    found,       \* number of calls that passed the lookup
    spawned      \* number of child processes created

vars == <<path, noexec, pc, resolved, child, outcome, prev,
          hostSame, found, spawned>>
ghost == <<prev, hostSame>>
host == <<path, noexec>>

NoChild == [state |-> "none", exe |-> Absent, code |-> 0, wrote |-> "none",
            error |-> ""]
NoOutcome == [kind |-> "none", message |-> ""]
NoPrev == [kind |-> "none", code |-> 0, wrote |-> "none"]

\* The file in the first directory of the search path that holds the
\* executable, Absent when no directory does.
Which(p) ==
    IF \A d \in Dirs : p[d] = Absent
    THEN Absent
    ELSE LET d == CHOOSE i \in Dirs :
                    /\ p[i] # Absent
                    /\ \A j \in Dirs : p[j] # Absent => i <= j
         IN p[d]

NotFoundMessage ==
    "executable systemd-detect-virt not found. cannot determine if machine is a container instance"

\* Variant: the exception is raised without its message argument.
ErrorWithoutMessage == [kind |-> "DetectVirtNotFoundError", message |-> ""]

DetectVirtNotFoundError == [kind |-> "DetectVirtNotFoundError", message |-> NotFoundMessage]

\* Variant: every OSError of the invocation is caught and re-raised as
\* DetectVirtNotFoundError.
ConvertedToNotFound(err) ==
    [kind |-> "DetectVirtNotFoundError", message |-> NotFoundMessage]

\* An OSError raised by subprocess.run, not caught by is_container().
Propagated(err) == [kind |-> err, message |-> err]

BoolStr(b) == IF b THEN "True" ELSE "False"

\* Variants of the mapping from the finished child to the result.
ReturnValueInverted(c) == BoolStr(c.code # 0)
ReturnValueSigned(c) == BoolStr(c.code <= 0)
ReturnValueFromOutput(c) == BoolStr(c.wrote = "lxc")

\* return result.returncode == 0
ReturnValue(c) == BoolStr(c.code = 0)

Completed(o) == [kind |-> o.kind, code |-> child.code, wrote |-> child.wrote]

\* ----------------------------------------------------------------- calls
\* is_container() is entered: shutil.which of systemd-detect-virt.
Lookup ==
    /\ pc = "idle"
    /\ found < MaxCalls
    /\ resolved' = Which(path)
    /\ prev' = IF outcome.kind # "none" THEN Completed(outcome) ELSE NoPrev
    /\ hostSame' = IF hostSame = "neither" \/ outcome.kind = "none"
                   THEN "latest" ELSE "previous"
    /\ child' = NoChild
    /\ IF Which(path) = Absent
       THEN /\ outcome' = DetectVirtNotFoundError
            /\ pc' = "idle"
            /\ found' = found
       ELSE /\ outcome' = NoOutcome
            /\ pc' = "resolved"
            /\ found' = found + 1
    /\ UNCHANGED <<host, spawned>>

\* subprocess.run of systemd-detect-virt --container: a child is forked
\* and looks the bare name up on the search path again, then executes it.
Exec ==
    /\ pc = "resolved"
    /\ spawned' = spawned + 1
    /\ LET exe == Which(path) IN
       IF exe = Absent \/ noexec
       THEN LET err == IF exe = Absent THEN "FileNotFoundError"
                       ELSE "PermissionError" IN
            /\ child' = [NoChild EXCEPT !.state = "execfailed", !.error = err]
            /\ outcome' = Propagated(err)
            /\ pc' = "idle"
       ELSE /\ child' = [NoChild EXCEPT !.state = "running", !.exe = exe]
            /\ outcome' = NoOutcome
            /\ pc' = "waiting"
    /\ UNCHANGED <<host, resolved, ghost, found>>

\* The child ends with the status the program has on this host.
ChildExit ==
    /\ child.state = "running"
    /\ \E w \in Outputs :
         child' = [child EXCEPT !.state = "zombie",
                                !.code = ExitStatusOf(child.exe),
                                !.wrote = w]
    /\ UNCHANGED <<host, pc, resolved, outcome, ghost, found, spawned>>

\* Variant: Popen without wait; the call returns at once and returncode is
\* still None unless the child has already ended.
ReturnNoWait ==
    /\ pc = "waiting"
    /\ child.state \in {"running", "zombie"}
    /\ child' = IF child.state = "zombie"
                THEN [child EXCEPT !.state = "reaped"] ELSE child
    /\ outcome' = [kind |-> IF child.state = "zombie" THEN ReturnValue(child)
                            ELSE "False",
                   message |-> ""]
    /\ pc' = "idle"
    /\ UNCHANGED <<host, resolved, ghost, found, spawned>>

\* Variant: subprocess.run with a timeout; a child still running when it
\* expires is killed and TimeoutExpired is raised.
ReturnTimeout ==
    /\ pc = "waiting"
    /\ child.state \in {"running", "zombie"}
    /\ IF child.state = "zombie"
       THEN /\ child' = [child EXCEPT !.state = "reaped"]
            /\ outcome' = [kind |-> ReturnValue(child), message |-> ""]
       ELSE /\ child' = [child EXCEPT !.state = "reaped", !.code = 0 - 9]
            /\ outcome' = Propagated("TimeoutExpired")
    /\ pc' = "idle"
    /\ UNCHANGED <<host, resolved, ghost, found, spawned>>

\* Variant: a nonzero exit status makes the call run the tool again.
ReturnRetry ==
    /\ pc = "waiting"
    /\ child.state = "zombie"
    /\ child' = [child EXCEPT !.state = "reaped"]
    /\ IF child.code = 0
       THEN /\ outcome' = [kind |-> ReturnValue(child), message |-> ""]
            /\ pc' = "idle"
       ELSE /\ outcome' = NoOutcome
            /\ pc' = "resolved"
    /\ UNCHANGED <<host, resolved, ghost, found, spawned>>

\* subprocess.run waits for the child, reaps it and is_container() returns.
Return ==
    /\ pc = "waiting"
    /\ child.state = "zombie"
    /\ child' = [child EXCEPT !.state = "reaped"]
    /\ outcome' = [kind |-> ReturnValue(child), message |-> ""]
    /\ pc' = "idle"
    /\ UNCHANGED <<host, resolved, ghost, found, spawned>>

\* ------------------------------------------------------------------ host
Install ==
    /\ \E d \in Dirs, e \in Entries :
         /\ e # path[d]
         /\ path' = [path EXCEPT ![d] = e]
    /\ hostSame' = "neither"
    /\ UNCHANGED <<noexec, pc, resolved, child, outcome, prev,
                   found, spawned>>

SetNoexec ==
    /\ noexec' = ~noexec
    /\ hostSame' = "neither"
    /\ UNCHANGED <<path, pc, resolved, child, outcome, prev,
                   found, spawned>>

Init ==
    /\ path \in [Dirs -> Entries]
    /\ noexec \in BOOLEAN
    /\ pc = "idle"
    /\ resolved = Absent
    /\ child = NoChild
    /\ outcome = NoOutcome
    /\ prev = NoPrev
    /\ hostSame = "latest"
    /\ found = 0
    /\ spawned = 0

Next ==
    \/ Lookup
    \/ Exec
    \/ ChildExit
    \/ Return
    \/ Install
    \/ SetNoexec

Spec == Init /\ [][Next]_vars

\* The child eventually exits, and the interpreter keeps running the call.
LiveSpec ==
    /\ Spec
    /\ WF_vars(Exec)
    /\ WF_vars(ChildExit)
    /\ WF_vars(Return)

TypeOK ==
    /\ path \in [Dirs -> Entries]
    /\ noexec \in BOOLEAN
    /\ pc \in {"idle", "resolved", "waiting"}
    /\ resolved \in Entries
    /\ child.state \in {"none", "running", "zombie", "reaped", "execfailed"}
    /\ found \in 0..MaxCalls
    /\ spawned \in 0..MaxCalls

Booleans == {"True", "False"}

\* C1: a call whose lookup found no executable ends with
\* DetectVirtNotFoundError carrying a non-empty message, never with a boolean.
C1_NotFoundRaises ==
    (resolved = Absent /\ outcome.kind # "none")
        => /\ outcome.kind = "DetectVirtNotFoundError"
           /\ outcome.message # ""
           /\ outcome.kind \notin Booleans

C1_Witness ==
    /\ resolved = Absent
    /\ outcome.kind = "DetectVirtNotFoundError"
    /\ prev.kind \in Booleans

\* C2: when the executable was found and the child exited with status 0, the
\* call returns true.
C2_ZeroIsTrue ==
    (resolved # Absent /\ child.state = "reaped" /\ child.code = 0)
        => outcome.kind = "True"

C2_Witness ==
    /\ resolved # Absent
    /\ child.state = "reaped"
    /\ child.code = 0
    /\ outcome.kind = "True"

\* C3: when the executable was found and the child ended with any nonzero
\* status, a signal's negative status included, the call returns false and
\* raises nothing.
C3_NonzeroIsFalse ==
    (resolved # Absent /\ child.state = "reaped" /\ child.code # 0)
        => outcome.kind = "False"

C3_Witness ==
    /\ resolved # Absent
    /\ child.state = "reaped"
    /\ child.code < 0
    /\ outcome.kind = "False"

\* C4: two consecutive calls made while the host did not change from the start
\* of the first to the end of the second end the same way: the same boolean
\* or the same error.
C4_Idempotent ==
    (/\ prev.kind # "none"
     /\ outcome.kind # "none"
     /\ hostSame = "previous")
        => outcome.kind = prev.kind

C4_Witness ==
    /\ prev.kind = "True"
    /\ outcome.kind = "True"
    /\ hostSame = "previous"

\* C5: every call that passed the lookup has created exactly one child by the
\* time it runs the tool, a call that raised DetectVirtNotFoundError created
\* none, and nothing is retried or cached: n calls that found the executable
\* created n children.
C5_OneSpawnPerCall ==
    /\ spawned = found - (IF pc = "resolved" THEN 1 ELSE 0)
    /\ outcome.kind = "DetectVirtNotFoundError" => child.state = "none"

C5_Witness ==
    /\ pc = "idle"
    /\ found = 2
    /\ spawned = 2
    /\ prev.kind = "False"
    /\ outcome.kind = "False"
    /\ hostSame = "previous"

\* C6: two calls whose children ended with the same exit code return the same
\* boolean, whatever the children wrote to stdout/stderr.
C6_ExitCodeOnly ==
    (/\ prev.kind \in Booleans
     /\ outcome.kind \in Booleans
     /\ prev.code = child.code)
        => outcome.kind = prev.kind

C6_Witness ==
    /\ prev.kind \in Booleans
    /\ outcome.kind \in Booleans
    /\ prev.code = child.code
    /\ prev.wrote # child.wrote

\* C7: DetectVirtNotFoundError is raised only when the lookup failed, and a
\* failure of the invocation itself reaches the caller as the error it is,
\* neither as DetectVirtNotFoundError nor as a boolean.
C7_OtherErrorsPropagate ==
    /\ outcome.kind = "DetectVirtNotFoundError" => resolved = Absent
    /\ child.state = "execfailed"
         => /\ child.error \in {"FileNotFoundError", "PermissionError"}
            /\ outcome.kind = child.error

C7_Witness ==
    /\ resolved # Absent
    /\ child.state = "execfailed"
    /\ child.error = "FileNotFoundError"
    /\ outcome.kind = "FileNotFoundError"

\* C8: a call that has returned a boolean has a child that exited and was
\* reaped, and no child of a finished call is running or left unreaped.
C8_ReturnsAfterReap ==
    /\ outcome.kind \in Booleans => child.state = "reaped"
    /\ pc = "idle" => child.state \notin {"running", "zombie"}

C8_Witness ==
    /\ pc = "idle"
    /\ outcome.kind \in Booleans
    /\ child.state = "reaped"

\* C9: the program a call executes is the file its lookup resolved.
C9_RunsResolved ==
    child.state \in {"running", "zombie", "reaped"} => child.exe = resolved

\* C10: a call that passed the lookup ends (with a boolean or an error) when
\* its child eventually exits, and no step ends a call whose child is still
\* running.
C10_Terminates ==
    /\ (pc # "idle") ~> (pc = "idle" /\ outcome.kind # "none")
    /\ [][child.state = "running" => pc' # "idle"]_vars

C10_Witness ==
    /\ pc = "waiting"
    /\ child.state = "running"
====
